---- MODULE Spec2Model ----
(***************************************************************************)
(* Topic lifecycle of send-connect-ai: the Topic table, the                *)
(* uploadToLlamaCloud and queryTopic Lambda handlers and the               *)
(* saveTopicDocument server action that creates Topics.                    *)
(*                                                                         *)
(* Every await of a handler is one step, so that concurrent invocations    *)
(* interleave exactly where the event loop / the network lets them.        *)
(***************************************************************************)
EXTENDS Integers, Sequences, FiniteSets, TLC

\* ---------------------------------------------------------------- bounds
MaxTopics == 1
MaxInvocations == 2

TopicIds == 1..MaxTopics
Procs == 1..MaxInvocations

\* ------------------------------------------------------------ data model
TopicStatus == {"PENDING", "INDEXING", "READY", "FAILED"}

\* an attribute that the item does not carry
NoId == 0
NoTime == << >>
NoStatus == "ABSENT"
NoTitle == ""
TopicTitle == "title"

VARIABLES topics, inv

vars == <<topics, inv>>

\* new Date().toISOString(): the instant at which request p reads the clock
\* for the attribute or step named; every reading is an instant of its own
Now(p, reading) == <<p, reading>>

\* The record Topic.create stores: the four given fields, and the timestamps
\* the data client adds.
NewTopic(now) ==
    [title |-> TopicTitle, topicStatus |-> "PENDING",
     llamaCloudPipelineId |-> NoId, llamaCloudFileId |-> NoId,
     indexedAt |-> NoTime, updatedAt |-> now]

\* The item an UpdateCommand starts from when the key has no item: UpdateItem
\* without a ConditionExpression adds the item, holding only what SET names.
EmptyItem ==
    [title |-> NoTitle, topicStatus |-> NoStatus,
     llamaCloudPipelineId |-> NoId, llamaCloudFileId |-> NoId,
     indexedAt |-> NoTime, updatedAt |-> NoTime]

Item(store, t) == IF t \in DOMAIN store THEN store[t] ELSE EmptyItem

\* docClient.send(new UpdateCommand({Key: {id: t}, UpdateExpression: SET ...}))
UpdateItem(store, t, rec) ==
    IF t \in DOMAIN store THEN [store EXCEPT ![t] = rec] ELSE store @@ (t :> rec)

\* (variant) the INDEXING update whose expression names updatedAt only
SetIndexingOnlyTouches(item, now) ==
    [item EXCEPT !.updatedAt = now]

\* (variant) the INDEXING update made only on a Topic that is PENDING
SetIndexingIfPending(item, now) ==
    IF item.topicStatus = "PENDING"
    THEN [item EXCEPT !.topicStatus = "INDEXING", !.updatedAt = now]
    ELSE item

\* 'SET topicStatus = :status, updatedAt = :updatedAt' with :status INDEXING
SetIndexing(item, now) ==
    [item EXCEPT !.topicStatus = "INDEXING", !.updatedAt = now]

\* (variant) the READY update without the file id
SetReadyDropsFileId(item, pipelineId, fileId, indexedAt, updatedAt) ==
    [item EXCEPT !.llamaCloudPipelineId = pipelineId,
                 !.topicStatus = "READY",
                 !.indexedAt = indexedAt,
                 !.updatedAt = updatedAt]

\* (variant) the READY update without updatedAt
SetReadyKeepsUpdatedAt(item, pipelineId, fileId, indexedAt, updatedAt) ==
    [item EXCEPT !.llamaCloudPipelineId = pipelineId,
                 !.llamaCloudFileId = fileId,
                 !.topicStatus = "READY",
                 !.indexedAt = indexedAt]

\* (variant) the READY update that does not name the pipeline id
SetReadyKeepsPipelineId(item, pipelineId, fileId, indexedAt, updatedAt) ==
    [item EXCEPT !.llamaCloudFileId = fileId,
                 !.topicStatus = "READY",
                 !.indexedAt = indexedAt,
                 !.updatedAt = updatedAt]

\* (variant) the READY update with if_not_exists() on the two identifiers
SetReadyIfNotExists(item, pipelineId, fileId, indexedAt, updatedAt) ==
    [item EXCEPT !.llamaCloudPipelineId = IF @ = NoId THEN pipelineId ELSE @,
                 !.llamaCloudFileId = IF @ = NoId THEN fileId ELSE @,
                 !.topicStatus = "READY",
                 !.indexedAt = indexedAt,
                 !.updatedAt = updatedAt]

\* 'SET llamaCloudPipelineId, llamaCloudFileId, topicStatus, indexedAt, updatedAt'
SetReady(item, pipelineId, fileId, indexedAt, updatedAt) ==
    [item EXCEPT !.llamaCloudPipelineId = pipelineId,
                 !.llamaCloudFileId = fileId,
                 !.topicStatus = "READY",
                 !.indexedAt = indexedAt,
                 !.updatedAt = updatedAt]

\* (variant) the FAILED update that never names the pipeline id
SetFailedWithoutPipeline(item, pipelineId, now) ==
    [item EXCEPT !.topicStatus = "FAILED", !.updatedAt = now]

\* (variant) the FAILED update that stamps indexedAt as well
SetFailedStampsIndexedAt(item, pipelineId, now) ==
    IF pipelineId # NoId
    THEN [item EXCEPT !.topicStatus = "FAILED",
                      !.llamaCloudPipelineId = pipelineId,
                      !.indexedAt = now,
                      !.updatedAt = now]
    ELSE [item EXCEPT !.topicStatus = "FAILED", !.indexedAt = now,
                      !.updatedAt = now]

\* (variant) the FAILED update that names the pipeline id in every case
SetFailedAlwaysNamesPipeline(item, pipelineId, now) ==
    [item EXCEPT !.topicStatus = "FAILED",
                 !.llamaCloudPipelineId = pipelineId,
                 !.updatedAt = now]

\* the FAILED update: the pipeline id is part of the expression only when the
\* handler holds one
SetFailed(item, pipelineId, now) ==
    IF pipelineId # NoId
    THEN [item EXCEPT !.topicStatus = "FAILED",
                      !.llamaCloudPipelineId = pipelineId,
                      !.updatedAt = now]
    ELSE [item EXCEPT !.topicStatus = "FAILED", !.updatedAt = now]

\* ------------------------------------------------- the query response
\* JSON.stringify of the response object: a key the object does not have (or
\* whose value is undefined) is absent from the string
NoMeta == [present |-> FALSE, topicTitle |-> NoTitle, hasQueryDate |-> FALSE,
           queryDate |-> NoTime, nodesRetrieved |-> 0]
NoOut == [success |-> FALSE, error |-> << >>, hasAnswer |-> FALSE, answer |-> "",
          hasCitations |-> FALSE, citations |-> << >>, metadata |-> NoMeta]

\* ------------------------------------------------- one request per slot
\* Slot p holds one client request: a saveTopicDocument call (origin "save"),
\* which creates a Topic and invokes uploadToLlamaCloud on it, or a direct
\* uploadToLlamaCloud mutation for a topicId (origin "direct").
IdleInv ==
    [origin |-> "none", pc |-> "idle", topicId |-> 0,
     pipelineId |-> NoId, fileId |-> NoId, error |-> << >>,
     calls |-> << >>, resp |-> "none", saveResp |-> "none",
     nodes |-> << >>, out |-> NoOut]

\* the ids the indexing service hands out: one new pipeline and one new file
\* per successful call, never reused
NewPipelineId(p) == p
NewFileId(p) == p

Call(op, ok) == [op |-> op, ok |-> ok]

Called(rec, op, ok) == [rec EXCEPT !.calls = Append(@, Call(op, ok))]

Has(rec, op, ok) == \E i \in 1..Len(rec.calls) : rec.calls[i] = Call(op, ok)

Tried(rec, op) == Has(rec, op, TRUE) \/ Has(rec, op, FALSE)

\* request p arrives: requests are numbered in the order in which they arrive
Arrives(p) ==
    /\ inv[p].pc = "idle"
    /\ \A q \in Procs : q < p => inv[q].pc # "idle"

Init ==
    /\ topics = << >>
    /\ inv = [p \in Procs |-> IdleInv]

MutationOutcomes == {"data", "errors", "throws"}

\* The uploadToLlamaCloud handler returns resp.  When saveTopicDocument made
\* the call (topic-actions.ts lines 153-190), the mutation comes back to it
\* with data, with errors, or by throwing: the action logs the first two and
\* answers success, the catch block answers failure.  Nothing is read or
\* written between the two returns, so they are one step.
Returned(rec, resp, m) ==
    [rec EXCEPT !.pc = "done", !.resp = resp,
                !.saveResp = IF rec.origin # "save" THEN "none"
                             ELSE IF m = "throws" THEN "failure" ELSE "success"]

\* (variant) the try block starts with the download
EnterHandlerSkipsIndexing(rec, envOk, m) ==
    IF envOk
    THEN [rec EXCEPT !.pc = "download"]
    ELSE [Returned(rec, "failure", m) EXCEPT
            !.error = <<"Missing required environment variables">>]

\* (variant) the environment check inside the try block: its failure is
\* thrown to the catch block
EnterHandlerThrowsEnvError(rec, envOk, m) ==
    IF envOk
    THEN [rec EXCEPT !.pc = "writeIndexing"]
    ELSE [rec EXCEPT !.pc = "writeFailed",
                     !.error = <<"Missing required environment variables">>]

\* handler lines 34-48: the environment check, then the try block is entered
EnterHandler(rec, envOk, m) ==
    IF envOk
    THEN [rec EXCEPT !.pc = "writeIndexing"]
    ELSE [Returned(rec, "failure", m) EXCEPT
            !.error = <<"Missing required environment variables">>]

\* the topic ids a client request may carry.  Ids are opaque strings, so
\* they are taken in order of first use: an id that is stored or that an
\* earlier request carried, or else the first id that nothing carries yet.
KnownIds == DOMAIN topics \cup ({inv[q].topicId : q \in Procs} \ {NoId})
Targets == {t \in TopicIds : t \in KnownIds \/ \A u \in TopicIds \ KnownIds : t <= u}

\* a client calls the uploadToLlamaCloud mutation for topic id t
InvokeUpload(p, t, envOk) ==
    /\ Arrives(p)
    /\ t \in Targets
    /\ inv' = [inv EXCEPT ![p] =
                 EnterHandler([@ EXCEPT !.origin = "direct", !.topicId = t],
                              envOk, "data")]
    /\ UNCHANGED topics

\* the catch block is entered with the thrown error
Throw(rec, op, message) ==
    [rec EXCEPT !.pc = "writeFailed", !.error = <<message>>,
                !.calls = Append(@, Call(op, FALSE))]

\* Step 1 (lines 50-63): the unconditional update to INDEXING
WriteIndexing(p, ok) ==
    /\ inv[p].pc = "writeIndexing"
    /\ IF ok
       THEN /\ topics' = UpdateItem(topics, inv[p].topicId,
                            SetIndexing(Item(topics, inv[p].topicId),
                                        Now(p, "indexing")))
            /\ inv' = [inv EXCEPT ![p].pc = "download",
                                  ![p].calls = Append(@, Call("writeIndexing", TRUE))]
       ELSE /\ topics' = topics
            /\ inv' = [inv EXCEPT ![p] = Throw(@, "writeIndexing", "store error")]

DownloadOutcomes == {"ok", "throw", "nobody"}

\* (variant) Step 2 without the check of the Body
DownloadUnchecked(p, outcome) ==
    /\ inv[p].pc = "download"
    /\ inv' = [inv EXCEPT ![p] =
                 CASE outcome = "throw" -> Throw(@, "download", "blob store error")
                   [] OTHER ->
                        [@ EXCEPT !.pc = "createPipeline",
                                  !.calls = Append(@, Call("download", outcome = "ok"))]]
    /\ UNCHANGED topics

\* Step 2 (lines 65-80): GetObject, and the check of its Body
Download(p, outcome) ==
    /\ inv[p].pc = "download"
    /\ inv' = [inv EXCEPT ![p] =
                 CASE outcome = "ok" ->
                        [@ EXCEPT !.pc = "createPipeline",
                                  !.calls = Append(@, Call("download", TRUE))]
                   [] outcome = "throw" -> Throw(@, "download", "blob store error")
                   [] OTHER -> Throw(@, "download", "Failed to download PDF from S3")]
    /\ UNCHANGED topics

\* response.ok or not.  (A rejected fetch enters the same catch block as the
\* error thrown for a response that is not ok.)
HttpOutcomes == {"ok", "notok"}

\* (variant) Step 3 without the check of response.ok
CreatePipelineUnchecked(p, outcome) ==
    /\ inv[p].pc = "createPipeline"
    /\ inv' = [inv EXCEPT ![p] =
                 [@ EXCEPT !.pc = "uploadFile",
                           !.pipelineId = IF outcome = "ok" THEN NewPipelineId(p)
                                          ELSE NoId,
                           !.calls = Append(@, Call("createPipeline", outcome = "ok"))]]
    /\ UNCHANGED topics

\* Step 3 (lines 82-113): POST /pipelines
CreatePipeline(p, outcome) ==
    /\ inv[p].pc = "createPipeline"
    /\ inv' = [inv EXCEPT ![p] =
                 CASE outcome = "ok" ->
                        [@ EXCEPT !.pc = "uploadFile",
                                  !.pipelineId = NewPipelineId(p),
                                  !.calls = Append(@, Call("createPipeline", TRUE))]
                   [] OTHER -> Throw(@, "createPipeline", "Failed to create pipeline")]
    /\ UNCHANGED topics

\* Step 4 (lines 115-144): POST /files
UploadFile(p, outcome) ==
    /\ inv[p].pc = "uploadFile"
    /\ inv' = [inv EXCEPT ![p] =
                 CASE outcome = "ok" ->
                        [@ EXCEPT !.pc = "attachFile",
                                  !.fileId = NewFileId(p),
                                  !.calls = Append(@, Call("uploadFile", TRUE))]
                   [] OTHER -> Throw(@, "uploadFile", "Failed to upload file")]
    /\ UNCHANGED topics

\* Step 5 (lines 146-168): PUT /pipelines/{pipelineId}/files
AttachFile(p, outcome) ==
    /\ inv[p].pc = "attachFile"
    /\ inv' = [inv EXCEPT ![p] =
                 CASE outcome = "ok" ->
                        [@ EXCEPT !.pc = "writeReady",
                                  !.calls = Append(@, Call("attachFile", TRUE))]
                   [] OTHER -> Throw(@, "attachFile", "Failed to add file to pipeline")]
    /\ UNCHANGED topics

\* (variant) the READY update inside a try/catch of its own: its failure is
\* logged and the success response is returned all the same
WriteReadyIgnoresFailure(p, ok, m) ==
    /\ inv[p].pc = "writeReady"
    /\ inv[p].origin = "save" \/ m = "data"
    /\ topics' = IF ok
                 THEN UpdateItem(topics, inv[p].topicId,
                        SetReady(Item(topics, inv[p].topicId),
                                 inv[p].pipelineId, inv[p].fileId,
                                 Now(p, "indexedAt"), Now(p, "ready")))
                 ELSE topics
    /\ inv' = [inv EXCEPT ![p] = Returned(Called(@, "writeReady", ok), "success", m)]

\* Step 6 (lines 170-195): the unconditional update to READY and the success
\* response.  indexedAt and updatedAt are two readings of the clock.
WriteReady(p, ok, m) ==
    /\ inv[p].pc = "writeReady"
    /\ inv[p].origin = "save" \/ m = "data"
    /\ IF ok
       THEN /\ topics' = UpdateItem(topics, inv[p].topicId,
                            SetReady(Item(topics, inv[p].topicId),
                                     inv[p].pipelineId, inv[p].fileId,
                                     Now(p, "indexedAt"), Now(p, "ready")))
            /\ inv' = [inv EXCEPT ![p] =
                         Returned(Called(@, "writeReady", TRUE), "success", m)]
       ELSE /\ topics' = topics
            /\ inv' = [inv EXCEPT ![p] = Throw(@, "writeReady", "store error")]

\* (variant) the catch block without the inner try/catch: a failure of the
\* FAILED update leaves the handler as an exception
WriteFailedRethrows(p, ok, m) ==
    /\ inv[p].pc = "writeFailed"
    /\ inv[p].origin = "save" \/ m = "data"
    /\ topics' = IF ok
                 THEN UpdateItem(topics, inv[p].topicId,
                        SetFailed(Item(topics, inv[p].topicId), inv[p].pipelineId,
                                  Now(p, "failed")))
                 ELSE topics
    /\ inv' = [inv EXCEPT ![p] =
                 Returned(Called(@, "writeFailed", ok),
                          IF ok THEN "failure" ELSE "threw", m)]

\* (variant) the failure of the FAILED update becomes the reported error
WriteFailedReportsWriteError(p, ok, m) ==
    /\ inv[p].pc = "writeFailed"
    /\ inv[p].origin = "save" \/ m = "data"
    /\ topics' = IF ok
                 THEN UpdateItem(topics, inv[p].topicId,
                        SetFailed(Item(topics, inv[p].topicId), inv[p].pipelineId,
                                  Now(p, "failed")))
                 ELSE topics
    /\ inv' = [inv EXCEPT ![p] =
                 [Returned(Called(@, "writeFailed", ok), "failure", m) EXCEPT
                    !.error = IF ok THEN @ ELSE <<"store error">>]]

\* The catch block (lines 196-231): one update to FAILED, whose own failure is
\* only logged, and the failure response with the message of the caught error.
WriteFailed(p, ok, m) ==
    /\ inv[p].pc = "writeFailed"
    /\ inv[p].origin = "save" \/ m = "data"
    /\ topics' = IF ok
                 THEN UpdateItem(topics, inv[p].topicId,
                        SetFailed(Item(topics, inv[p].topicId), inv[p].pipelineId,
                                  Now(p, "failed")))
                 ELSE topics
    /\ inv' = [inv EXCEPT ![p] = Returned(Called(@, "writeFailed", ok), "failure", m)]

\* ------------------------------------------------------------ queryTopic
\* the outcome of the retrieval call: the passages of a response that is ok
Retrieved(nodes) == [kind |-> "ok", nodes |-> nodes]

\* substring(0, 250) of the citation excerpt
ExcerptLen == 250

\* A retrieved passage as the retrieval call delivers it.  wrapped: the text
\* and extra_info sit under item.node; otherwise directly on the item.  A text
\* is modelled by its length, an absent page_label / file_name by "".
Passage(wrapped, page, file, len, score) ==
    [wrapped |-> wrapped, page_label |-> page, file_name |-> file,
     textLen |-> len, score |-> score]

Min(a, b) == IF a < b THEN a ELSE b

\* node.extra_info?.page_label || 'Unknown'
PageOf(n) == IF n.page_label # "" THEN n.page_label ELSE "Unknown"

\* node.extra_info?.file_name || 'Unknown'
FileNameOf(n) == IF n.file_name # "" THEN n.file_name ELSE "Unknown"

\* node.text ? node.text.substring(0, 250) + '...' : ''
\* (kept: characters of the text that remain; ellipsis: the '...' is appended)
ExcerptOf(n) ==
    IF n.textLen > 0
    THEN [kept |-> Min(n.textLen, ExcerptLen), ellipsis |-> TRUE]
    ELSE [kept |-> 0, ellipsis |-> FALSE]

\* (variant) the citations numbered by the array index
CitationsZeroBased(nodes) ==
    [i \in 1..Len(nodes) |->
        [excerptNumber |-> i - 1,
         page |-> PageOf(nodes[i]),
         fileName |-> FileNameOf(nodes[i]),
         excerpt |-> ExcerptOf(nodes[i]),
         relevanceScore |-> nodes[i].score]]

\* lines 200-209: one citation per retrieved item, in retrieval order
Citations(nodes) ==
    [i \in 1..Len(nodes) |->
        [excerptNumber |-> i,
         page |-> PageOf(nodes[i]),
         fileName |-> FileNameOf(nodes[i]),
         excerpt |-> ExcerptOf(nodes[i]),
         relevanceScore |-> nodes[i].score]]

\* `${topic.topicStatus}` inside the not-ready message
StatusText(status) == IF status = NoStatus THEN "undefined" ELSE status

QueryFail(rec, message) ==
    [rec EXCEPT !.pc = "done", !.resp = "failure", !.error = message,
                !.out = [NoOut EXCEPT !.error = message]]

\* lines 134-145: the zero-passage response
EmptyAnswer(rec, item) ==
    [rec EXCEPT !.pc = "done", !.resp = "success",
                !.out = [NoOut EXCEPT
                           !.success = TRUE,
                           !.hasAnswer = TRUE, !.answer = "no relevant information",
                           !.hasCitations = TRUE, !.citations = << >>,
                           !.metadata = [NoMeta EXCEPT !.present = TRUE,
                                           !.topicTitle = item.title,
                                           !.nodesRetrieved = 0]]]

\* (variant) nodesRetrieved reports the number of passages asked for
FullAnswerCountsRequested(rec, item, nodes, answer, now) ==
    [rec EXCEPT !.pc = "done", !.resp = "success",
                !.out = [NoOut EXCEPT
                           !.success = TRUE,
                           !.hasAnswer = TRUE, !.answer = answer,
                           !.hasCitations = TRUE, !.citations = Citations(nodes),
                           !.metadata = [NoMeta EXCEPT !.present = TRUE,
                                           !.topicTitle = item.title,
                                           !.hasQueryDate = TRUE, !.queryDate = now,
                                           !.nodesRetrieved = 10]]]

\* lines 196-221: the synthesized response
FullAnswer(rec, item, nodes, answer, now) ==
    [rec EXCEPT !.pc = "done", !.resp = "success",
                !.out = [NoOut EXCEPT
                           !.success = TRUE,
                           !.hasAnswer = TRUE, !.answer = answer,
                           !.hasCitations = TRUE, !.citations = Citations(nodes),
                           !.metadata = [NoMeta EXCEPT !.present = TRUE,
                                           !.topicTitle = item.title,
                                           !.hasQueryDate = TRUE, !.queryDate = now,
                                           !.nodesRetrieved = Len(nodes)]]]

\* lines 147-221, entered with at least one retrieved item: item.node is read
\* for every item while the context is formatted, which throws a TypeError on
\* an item without a node; then the synthesis call; then the citations.
Synthesize(rec, item, nodes, synth, now) ==
    IF \E i \in 1..Len(nodes) : ~nodes[i].wrapped
    THEN QueryFail(rec, <<"Cannot read properties of undefined (reading 'extra_info')">>)
    ELSE CASE synth = "throw" ->
                QueryFail(Called(rec, "synthesize", FALSE), <<"synthesis error">>)
           [] synth = "nontext" ->
                FullAnswer(Called(rec, "synthesize", TRUE), item, nodes, "", now)
           [] OTHER ->
                FullAnswer(Called(rec, "synthesize", TRUE), item, nodes, "synthesized", now)

\* (variant) the retrieval call without the zero-passage short circuit
RetrieveNoShortCircuit(rec, item, retrieval, synth, now) ==
    CASE retrieval.kind = "throw" ->
           QueryFail(Called(rec, "retrieve", FALSE), <<"fetch failed">>)
      [] retrieval.kind = "notok" ->
           QueryFail(Called(rec, "retrieve", FALSE),
                     <<"Failed to retrieve from Llama Cloud: ", "status - body">>)
      [] OTHER ->
           LET got == [Called(rec, "retrieve", TRUE) EXCEPT !.nodes = retrieval.nodes]
           IN Synthesize(got, item, got.nodes, synth, now)

\* lines 104-145: the retrieval call and the zero-passage short circuit
Retrieve(rec, item, retrieval, synth, now) ==
    CASE retrieval.kind = "throw" ->
           QueryFail(Called(rec, "retrieve", FALSE), <<"fetch failed">>)
      [] retrieval.kind = "notok" ->
           QueryFail(Called(rec, "retrieve", FALSE),
                     <<"Failed to retrieve from Llama Cloud: ", "status - body">>)
      [] OTHER ->
           LET got == [Called(rec, "retrieve", TRUE) EXCEPT !.nodes = retrieval.nodes]
           IN IF Len(got.nodes) = 0
              THEN EmptyAnswer(got, item)
              ELSE Synthesize(got, item, got.nodes, synth, now)

\* (variant) the pipeline id is checked before the status
CheckTopicPipelineFirst(rec, found, item, retrieval, synth, now) ==
    IF ~found
    THEN QueryFail(rec, <<"Topic not found: ", ToString(rec.topicId)>>)
    ELSE IF item.llamaCloudPipelineId = NoId
    THEN QueryFail(rec, <<"Topic does not have a Llama Cloud pipeline ID">>)
    ELSE IF item.topicStatus # "READY"
    THEN QueryFail(rec, <<"Topic is not ready for querying. Current status: ",
                          StatusText(item.topicStatus)>>)
    ELSE Retrieve(rec, item, retrieval, synth, now)

\* (variant) the status is not checked: any Topic with a pipeline id is queried
CheckTopicNoStatusCheck(rec, found, item, retrieval, synth, now) ==
    IF ~found
    THEN QueryFail(rec, <<"Topic not found: ", ToString(rec.topicId)>>)
    ELSE IF item.llamaCloudPipelineId = NoId
    THEN QueryFail(rec, <<"Topic does not have a Llama Cloud pipeline ID">>)
    ELSE Retrieve(rec, item, retrieval, synth, now)

\* lines 84-102: the three precondition checks on the result of the read
\* (found: getResult.Item is there; item: that Item)
CheckTopic(rec, found, item, retrieval, synth, now) ==
    IF ~found
    THEN QueryFail(rec, <<"Topic not found: ", ToString(rec.topicId)>>)
    ELSE IF item.topicStatus # "READY"
    THEN QueryFail(rec, <<"Topic is not ready for querying. Current status: ",
                          StatusText(item.topicStatus)>>)
    ELSE IF item.llamaCloudPipelineId = NoId
    THEN QueryFail(rec, <<"Topic does not have a Llama Cloud pipeline ID">>)
    ELSE Retrieve(rec, item, retrieval, synth, now)

\* lines 60-82: the environment check and the GetCommand
QueryHandler(rec, store, envOk, getOk, retrieval, synth, now) ==
    IF ~envOk
    THEN QueryFail(rec, <<"Missing required environment variables">>)
    ELSE IF ~getOk
    THEN QueryFail(Called(rec, "getTopic", FALSE), <<"store error">>)
    ELSE CheckTopic(Called(rec, "getTopic", TRUE),
                    rec.topicId \in DOMAIN store, Item(store, rec.topicId),
                    retrieval, synth, now)

\* (variant) the handler stamps the Topic it has read
QueryTopicStampsTopic(p, t, envOk, getOk, retrieval, synth) ==
    /\ Arrives(p)
    /\ t \in Targets
    /\ LET rec == QueryHandler([inv[p] EXCEPT !.origin = "query", !.topicId = t],
                               topics, envOk, getOk, retrieval, synth, Now(p, "query"))
       IN /\ Tried(rec, "getTopic") \/ getOk
          /\ Tried(rec, "retrieve") \/ retrieval = Retrieved(<< >>)
          /\ Tried(rec, "synthesize") \/ synth = "ok"
          /\ inv' = [inv EXCEPT ![p] = rec]
          /\ topics' = IF Has(rec, "getTopic", TRUE) /\ t \in DOMAIN topics
                       THEN [topics EXCEPT ![t].updatedAt = Now(p, "query")]
                       ELSE topics

\* a client calls the queryTopic mutation for topic id t.  The handler reads
\* the store once and writes nothing, so its awaits are taken as one step.
\* An outcome is drawn only for a call that the handler makes.
QueryTopic(p, t, envOk, getOk, retrieval, synth) ==
    /\ Arrives(p)
    /\ t \in Targets
    /\ LET rec == QueryHandler([inv[p] EXCEPT !.origin = "query", !.topicId = t],
                               topics, envOk, getOk, retrieval, synth, Now(p, "query"))
       IN /\ Tried(rec, "getTopic") \/ getOk
          /\ Tried(rec, "retrieve") \/ retrieval = Retrieved(<< >>)
          /\ Tried(rec, "synthesize") \/ synth = "ok"
          /\ inv' = [inv EXCEPT ![p] = rec]
    /\ UNCHANGED topics
RetrievalFailures == {[kind |-> "throw", nodes |-> << >>],
                      [kind |-> "notok", nodes |-> << >>]}
SynthOutcomes == {"ok", "throw", "nontext"}

\* the retrieval outcomes tried while the lifecycle is explored
SomePassage == Passage(TRUE, "12", "doc.pdf", 100, 1)
FlatPassage == Passage(FALSE, "12", "doc.pdf", 100, 1)
RetrievalsBrief ==
    RetrievalFailures \cup
    {Retrieved(<< >>), Retrieved(<<SomePassage>>), Retrieved(<<FlatPassage>>)}

\* ----------------------------------------------------- saveTopicDocument
\* where the action stops before it has created a Topic, or "created"
SaveOutcomes == {"nofile", "invalid", "nobucket", "putfails", "createfails", "created"}

\* the id the store gives the created record: one that no record carries
FreshTopicId(store) == CHOOSE t \in TopicIds \ DOMAIN store :
                          \A u \in TopicIds \ DOMAIN store : t <= u

\* (variant) an early return that answers success
SaveFailReportsSuccess(rec, calls) ==
    [rec EXCEPT !.origin = "save", !.pc = "done", !.saveResp = "success",
                !.calls = calls]

\* topic-actions.ts: every return before the Topic exists is success:false
SaveFail(rec, calls) ==
    [rec EXCEPT !.origin = "save", !.pc = "done", !.saveResp = "failure",
                !.calls = calls]

\* topic-actions.ts lines 21-159: validation, blob upload, Topic.create with
\* topicStatus PENDING, and the call of the uploadToLlamaCloud mutation.
\* invoked: the mutation reaches the Lambda; otherwise it comes back at once,
\* with errors or by throwing.
SaveTopicDocument(p, outcome, invoked, envOk, m) ==
    /\ Arrives(p)
    /\ outcome = "created" \/ invoked
    /\ (outcome = "created" /\ invoked) \/ envOk
    /\ (outcome = "created" /\ ~(invoked /\ envOk)) \/ m = "data"
    /\ CASE outcome \in {"nofile", "invalid", "nobucket"} ->
              /\ inv' = [inv EXCEPT ![p] = SaveFail(@, << >>)]
              /\ topics' = topics
         [] outcome = "putfails" ->
              /\ inv' = [inv EXCEPT ![p] = SaveFail(@, <<Call("putObject", FALSE)>>)]
              /\ topics' = topics
         [] outcome = "createfails" ->
              /\ inv' = [inv EXCEPT ![p] =
                           SaveFail(@, <<Call("putObject", TRUE), Call("createTopic", FALSE)>>)]
              /\ topics' = topics
         [] OTHER ->
              /\ TopicIds \ DOMAIN topics # {}
              /\ invoked \/ m # "data"
              /\ LET t == FreshTopicId(topics)
                     rec == [inv[p] EXCEPT
                               !.origin = "save", !.topicId = t,
                               !.calls = <<Call("putObject", TRUE), Call("createTopic", TRUE)>>]
                 IN /\ topics' = topics @@ (t :> NewTopic(Now(p, "create")))
                    /\ inv' = [inv EXCEPT ![p] =
                                 IF invoked THEN EnterHandler(rec, envOk, m)
                                 ELSE Returned(rec, "none", m)]

\* the requests that can take a step: the one that arrives next, and those
\* that stand before a given await
Arriving == {p \in Procs : Arrives(p)}
At(pc) == {p \in Procs : inv[p].pc = pc}

Next ==
    \/ \E p \in Arriving, o \in SaveOutcomes, invoked \in BOOLEAN, envOk \in BOOLEAN,
          m \in MutationOutcomes :
            SaveTopicDocument(p, o, invoked, envOk, m)
    \/ \E p \in Arriving, t \in Targets, envOk \in BOOLEAN : InvokeUpload(p, t, envOk)
    \/ \E p \in At("writeIndexing"), ok \in BOOLEAN : WriteIndexing(p, ok)
    \/ \E p \in At("download"), o \in DownloadOutcomes : Download(p, o)
    \/ \E p \in At("createPipeline"), o \in HttpOutcomes : CreatePipeline(p, o)
    \/ \E p \in At("uploadFile"), o \in HttpOutcomes : UploadFile(p, o)
    \/ \E p \in At("attachFile"), o \in HttpOutcomes : AttachFile(p, o)
    \/ \E p \in At("writeReady"), ok \in BOOLEAN, m \in MutationOutcomes : WriteReady(p, ok, m)
    \/ \E p \in At("writeFailed"), ok \in BOOLEAN, m \in MutationOutcomes : WriteFailed(p, ok, m)
    \/ \E p \in Arriving, t \in Targets, envOk \in BOOLEAN, getOk \in BOOLEAN,
          r \in RetrievalsBrief, s \in {"ok", "throw"} :
            QueryTopic(p, t, envOk, getOk, r, s)

Spec == Init /\ [][Next]_vars

\* ------------------------------------------ the query handler on any item
\* The Topic model lets an ADMIN create and update records through the data
\* API, so the item queryTopic reads may be any record of the schema: every
\* status of the enum, with or without the optional attributes.
SchemaTopics ==
    [title : {TopicTitle}, topicStatus : TopicStatus,
     llamaCloudPipelineId : {NoId, 1}, llamaCloudFileId : {NoId, 1},
     indexedAt : {NoTime, Now(1, "indexedAt")}, updatedAt : {Now(1, "create")}]

MaxNodes == 2

Passages ==
    {Passage(TRUE, "12", "doc.pdf", 100, 2),
     Passage(TRUE, "45", "doc.pdf", 300, 1),
     Passage(TRUE, "", "", 0, 0),
     Passage(FALSE, "12", "doc.pdf", 100, 2)}

NodeLists == UNION {[1..n -> Passages] : n \in 0..MaxNodes}

Retrievals == RetrievalFailures \cup {Retrieved(nodes) : nodes \in NodeLists}

InitQ ==
    /\ topics \in {<< >>} \cup {(1 :> r) : r \in SchemaTopics}
    /\ inv = [p \in Procs |-> IdleInv]

\* one query is answered from each store
NextQ ==
    \E p \in Arriving, t \in Targets, envOk \in BOOLEAN, getOk \in BOOLEAN,
       r \in Retrievals, s \in SynthOutcomes :
         /\ \A q \in Procs : inv[q].pc = "idle"
         /\ QueryTopic(p, t, envOk, getOk, r, s)

SpecQ == InitQ /\ [][NextQ]_vars


\* ===================================================================
\* Properties
\* ===================================================================
UploadOps == {"writeIndexing", "download", "createPipeline", "uploadFile",
              "attachFile", "writeReady", "writeFailed"}
FourSteps == {"download", "createPipeline", "uploadFile", "attachFile"}

IsUploadOp(c) == c.op \in UploadOps

\* what the uploadToLlamaCloud handler of request p has done so far
UploadCalls(rec) == SelectSeq(rec.calls, IsUploadOp)

FullRun ==
    <<Call("writeIndexing", TRUE), Call("download", TRUE),
      Call("createPipeline", TRUE), Call("uploadFile", TRUE),
      Call("attachFile", TRUE), Call("writeReady", TRUE)>>

\* the other requests whose upload handler has acted on the Topic of request p
OtherUploads(p) ==
    {q \in Procs \ {p} : /\ inv[q].topicId = inv[p].topicId
                         /\ UploadCalls(inv[q]) # << >>}

QueryDone(p) == inv[p].origin = "query" /\ inv[p].pc = "done"

\* C1: in every reachable state every Topic's topicStatus is one of PENDING,
\* INDEXING, READY, FAILED, and a READY Topic carries both
\* llamaCloudPipelineId and llamaCloudFileId.
C1_StatusAndReadyIds ==
    \A t \in DOMAIN topics :
        /\ topics[t].topicStatus \in TopicStatus
        /\ topics[t].topicStatus = "READY" =>
              /\ topics[t].llamaCloudPipelineId # NoId
              /\ topics[t].llamaCloudFileId # NoId

\* a READY Topic that a query has answered from
C1_Witness ==
    \E t \in DOMAIN topics, p \in Procs :
        /\ topics[t].topicStatus = "READY"
        /\ topics[t].llamaCloudFileId # NoId
        /\ QueryDone(p) /\ inv[p].topicId = t /\ inv[p].out.success

\* C2: when one of the four indexing steps (download, create pipeline, upload
\* file, attach file) has failed and the handler's FAILED update goes through,
\* the handler returns failure leaving the Topic FAILED (not INDEXING), with
\* the id of the pipeline it had created before the failing step, if any,
\* stored on the Topic.
C2_FailedStepLeavesFailed ==
    [][\A p \in Procs :
          (/\ inv[p].pc = "writeFailed"
           /\ \E op \in FourSteps : Has(inv[p], op, FALSE)
           /\ Has(inv'[p], "writeFailed", TRUE))
          => LET t == inv[p].topicId
             IN /\ inv'[p].pc = "done" /\ inv'[p].resp = "failure"
                /\ t \in DOMAIN topics'
                /\ topics'[t].topicStatus = "FAILED"
                /\ Has(inv[p], "createPipeline", TRUE) =>
                      /\ inv[p].pipelineId = NewPipelineId(p)
                      /\ topics'[t].llamaCloudPipelineId = inv[p].pipelineId
                /\ ~Has(inv[p], "createPipeline", TRUE) =>
                      inv[p].pipelineId = NoId]_vars

\* the attach step failed after the pipeline was created
C2_Witness ==
    \E p \in Procs :
        /\ inv[p].pc = "done"
        /\ Has(inv[p], "attachFile", FALSE) /\ Has(inv[p], "writeFailed", TRUE)
        /\ inv[p].topicId \in DOMAIN topics
        /\ topics[inv[p].topicId].topicStatus = "FAILED"
        /\ topics[inv[p].topicId].llamaCloudPipelineId = NewPipelineId(p)

\* C3: an invocation writes READY only after its own download, pipeline
\* creation, file upload and file attach have succeeded in that order, and a
\* Topic is READY only through such a write.
C3_ReadyOnlyAfterAllSteps ==
    /\ \A p \in Procs :
          /\ Tried(inv[p], "writeReady") =>
                SubSeq(UploadCalls(inv[p]), 1, 5) = SubSeq(FullRun, 1, 5)
          /\ Has(inv[p], "writeReady", TRUE) => UploadCalls(inv[p]) = FullRun
    /\ \A t \in DOMAIN topics :
          topics[t].topicStatus = "READY" =>
              \E p \in Procs : /\ inv[p].topicId = t
                               /\ UploadCalls(inv[p]) = FullRun

\* a directly invoked upload that ran all six steps
C3_Witness ==
    \E p \in Procs :
        /\ inv[p].origin = "direct" /\ inv[p].resp = "success"
        /\ UploadCalls(inv[p]) = FullRun
        /\ topics[inv[p].topicId].topicStatus = "READY"

\* C4: for a Topic created PENDING, one invocation (no other invocation acting
\* on the Topic) in which everything succeeds takes it PENDING -> INDEXING ->
\* READY, with exactly one READY write, which sets indexedAt and refreshes
\* updatedAt.
C4_PendingToReadyOnce ==
    \A p \in Procs :
        (/\ inv[p].origin \in {"save", "direct"}
         /\ inv[p].topicId \in DOMAIN topics
         /\ topics[inv[p].topicId].title = TopicTitle
         /\ OtherUploads(p) = {})
        => LET topic == topics[inv[p].topicId]
           IN /\ UploadCalls(inv[p]) = << >> => topic.topicStatus = "PENDING"
              /\ inv[p].pc \in FourSteps \cup {"writeReady"} =>
                    topic.topicStatus = "INDEXING"
              /\ inv[p].resp = "success" =>
                    /\ topic.topicStatus = "READY"
                    /\ topic.indexedAt = Now(p, "indexedAt")
                    /\ topic.updatedAt = Now(p, "ready")
                    /\ UploadCalls(inv[p]) = FullRun
                    /\ Cardinality({i \in 1..Len(inv[p].calls) :
                                      inv[p].calls[i].op = "writeReady"}) = 1

\* a saved Topic whose only invocation succeeded
C4_Witness ==
    \E p \in Procs :
        /\ inv[p].origin = "save" /\ inv[p].resp = "success"
        /\ OtherUploads(p) = {}
        /\ topics[inv[p].topicId].topicStatus = "READY"
        /\ topics[inv[p].topicId].indexedAt # NoTime
        /\ topics[inv[p].topicId].updatedAt = Now(p, "ready")

\* C5: once a Topic is READY no step changes its topicStatus.
C5_ReadyIsTerminal ==
    [][\A t \in DOMAIN topics :
          topics[t].topicStatus = "READY" => topics'[t].topicStatus = "READY"]_vars

\* C6: once llamaCloudPipelineId holds a value, no step changes it.
C6_PipelineIdSetOnce ==
    [][\A t \in DOMAIN topics :
          topics[t].llamaCloudPipelineId # NoId =>
              topics'[t].llamaCloudPipelineId = topics[t].llamaCloudPipelineId]_vars

\* C7: the READY write is unconditional: whenever an invocation's READY write
\* goes through, whatever the Topic held before, the Topic is READY with that
\* invocation's pipeline and file ids (the last writer wins).
C7_LastReadyWriteWins ==
    [][\A p \in Procs :
          (inv[p].pc = "writeReady" /\ inv'[p].resp = "success")
          => LET t == inv[p].topicId
             IN /\ t \in DOMAIN topics'
                /\ topics'[t].topicStatus = "READY"
                /\ topics'[t].llamaCloudPipelineId = inv[p].pipelineId
                /\ topics'[t].llamaCloudFileId = inv[p].fileId]_vars

\* two invocations for one Topic both created a pipeline and both wrote READY;
\* the Topic holds the ids of q, those of p are overwritten
C7_Witness ==
    \E p \in Procs, q \in Procs :
        /\ p # q /\ inv[p].topicId = inv[q].topicId
        /\ UploadCalls(inv[p]) = FullRun /\ UploadCalls(inv[q]) = FullRun
        /\ inv[p].pipelineId # inv[q].pipelineId
        /\ topics[inv[q].topicId].topicStatus = "READY"
        /\ topics[inv[q].topicId].llamaCloudPipelineId = inv[q].pipelineId
        /\ topics[inv[q].topicId].llamaCloudFileId = inv[q].fileId
        /\ topics[inv[q].topicId].updatedAt = Now(q, "ready")

\* the step in which request p runs queryTopic and the handler reads the store
QueryReads(p) ==
    /\ inv[p].pc = "idle" /\ inv'[p].origin = "query"
    /\ Has(inv'[p], "getTopic", TRUE)

\* C8: a query that reads an existing Topic whose status is not READY answers
\* success:false with the not-ready message naming the status the Topic has
\* at that moment, and makes no retrieval and no synthesis call.
C8_NotReadyNamesStatus ==
    [][\A p \in Procs :
          (/\ QueryReads(p)
           /\ inv'[p].topicId \in DOMAIN topics
           /\ topics[inv'[p].topicId].topicStatus # "READY")
          => /\ inv'[p].pc = "done"
             /\ ~inv'[p].out.success
             /\ inv'[p].out.error =
                   <<"Topic is not ready for querying. Current status: ",
                     topics[inv'[p].topicId].topicStatus>>
             /\ ~inv'[p].out.hasAnswer /\ ~inv'[p].out.hasCitations
             /\ ~Tried(inv'[p], "retrieve") /\ ~Tried(inv'[p], "synthesize")]_vars

\* a Topic that an invocation has left FAILED with a pipeline id was queried
C8_Witness ==
    \E p \in Procs :
        /\ QueryDone(p) /\ inv[p].topicId \in DOMAIN topics
        /\ topics[inv[p].topicId].topicStatus = "FAILED"
        /\ topics[inv[p].topicId].llamaCloudPipelineId # NoId
        /\ inv[p].out.error =
              <<"Topic is not ready for querying. Current status: ", "FAILED">>

\* C9: queryTopic checks (1) the Topic exists, (2) its status is READY, (3) it
\* has a pipeline id, in that order, and reports the first check that fails,
\* without a retrieval call.
C9_PreconditionOrder ==
    \A p \in Procs :
        (QueryDone(p) /\ Has(inv[p], "getTopic", TRUE))
        => LET t == inv[p].topicId
               missing == t \notin DOMAIN topics
               notReady == ~missing /\ topics[t].topicStatus # "READY"
               noPipeline == /\ ~missing /\ topics[t].topicStatus = "READY"
                             /\ topics[t].llamaCloudPipelineId = NoId
           IN /\ missing => inv[p].out.error = <<"Topic not found: ", ToString(t)>>
              /\ notReady => inv[p].out.error =
                    <<"Topic is not ready for querying. Current status: ",
                      topics[t].topicStatus>>
              /\ noPipeline => inv[p].out.error =
                    <<"Topic does not have a Llama Cloud pipeline ID">>
              /\ (missing \/ notReady \/ noPipeline) =>
                    ~inv[p].out.success /\ ~Tried(inv[p], "retrieve")
              /\ ~(missing \/ notReady \/ noPipeline) => Tried(inv[p], "retrieve")

\* a READY Topic without a pipeline id was queried
C9_Witness ==
    \E p \in Procs :
        /\ QueryDone(p) /\ Has(inv[p], "getTopic", TRUE)
        /\ inv[p].topicId \in DOMAIN topics
        /\ topics[inv[p].topicId].topicStatus = "READY"
        /\ topics[inv[p].topicId].llamaCloudPipelineId = NoId
        /\ inv[p].out.error = <<"Topic does not have a Llama Cloud pipeline ID">>

\* C10: a successful retrieval of zero passages yields success:true with the
\* canned answer, citations = [], nodesRetrieved = 0 and no synthesis call; a
\* failed retrieval yields success:false.
C10_EmptyRetrieval ==
    \A p \in Procs :
        QueryDone(p) =>
           /\ (Has(inv[p], "retrieve", TRUE) /\ inv[p].nodes = << >>) =>
                 /\ inv[p].out.success
                 /\ inv[p].out.hasAnswer
                 /\ inv[p].out.answer = "no relevant information"
                 /\ inv[p].out.hasCitations /\ inv[p].out.citations = << >>
                 /\ inv[p].out.metadata.present
                 /\ inv[p].out.metadata.nodesRetrieved = 0
                 /\ ~Tried(inv[p], "synthesize")
           /\ Has(inv[p], "retrieve", FALSE) =>
                 /\ ~inv[p].out.success
                 /\ ~inv[p].out.hasAnswer /\ ~inv[p].out.hasCitations
                 /\ ~Tried(inv[p], "synthesize")

\* a query of a READY Topic got zero passages
C10_Witness ==
    \E p \in Procs :
        /\ QueryDone(p) /\ Has(inv[p], "retrieve", TRUE) /\ inv[p].nodes = << >>
        /\ topics[inv[p].topicId].topicStatus = "READY"
        /\ inv[p].out.success /\ inv[p].out.metadata.nodesRetrieved = 0
        /\ inv[p].out.answer = "no relevant information"

\* C11: a query whose retrieval returned N >= 1 passages and whose synthesis
\* call succeeded answers success:true with exactly N citations, numbered
\* 1..N, citation i carrying the page label and the file name of the i-th
\* retrieved passage ("Unknown" for one the passage does not have), and
\* metadata.nodesRetrieved = N.
C11_CitationsFollowRetrieval ==
    \A p \in Procs :
        (QueryDone(p) /\ Has(inv[p], "synthesize", TRUE) /\ Len(inv[p].nodes) >= 1)
        => LET nodes == inv[p].nodes
               cs == inv[p].out.citations
           IN /\ inv[p].out.success /\ inv[p].out.hasCitations
              /\ Len(cs) = Len(nodes)
              /\ inv[p].out.metadata.nodesRetrieved = Len(nodes)
              /\ \A i \in 1..Len(nodes) :
                    /\ cs[i].excerptNumber = i
                    /\ cs[i].page = IF nodes[i].page_label = "" THEN "Unknown"
                                    ELSE nodes[i].page_label
                    /\ cs[i].fileName = IF nodes[i].file_name = "" THEN "Unknown"
                                        ELSE nodes[i].file_name

\* two passages with page labels 12 and 45 were retrieved, in that order
C11_Witness ==
    \E p \in Procs :
        /\ QueryDone(p) /\ Has(inv[p], "synthesize", TRUE)
        /\ Len(inv[p].nodes) = 2
        /\ inv[p].nodes[1].page_label = "12" /\ inv[p].nodes[2].page_label = "45"
        /\ Len(inv[p].out.citations) = 2
        /\ inv[p].out.citations[1].page = "12" /\ inv[p].out.citations[2].page = "45"
        /\ inv[p].out.citations[2].excerptNumber = 2
        /\ inv[p].out.metadata.nodesRetrieved = 2

\* C19: for a READY Topic with a pipeline id, a retrieval that delivers
\* N >= 1 passages, wrapped or flat, followed by a synthesis call that does
\* not fail, yields success:true with one citation per passage.
C19_BothShapesTolerated ==
    \A p \in Procs :
        (/\ QueryDone(p) /\ Has(inv[p], "retrieve", TRUE)
         /\ Len(inv[p].nodes) >= 1
         /\ ~Has(inv[p], "synthesize", FALSE))
        => /\ inv[p].out.success
           /\ Len(inv[p].out.citations) = Len(inv[p].nodes)

\* C20: the excerpt of every citation keeps the first 250 characters of the
\* passage text, and carries the ellipsis exactly when the text is longer
\* than 250 characters.
C20_EllipsisOnlyWhenCut ==
    \A p \in Procs :
        (QueryDone(p) /\ inv[p].out.success)
        => \A i \in 1..Len(inv[p].out.citations) :
              /\ inv[p].out.citations[i].excerpt.kept =
                    Min(inv[p].nodes[i].textLen, ExcerptLen)
              /\ inv[p].out.citations[i].excerpt.ellipsis =
                    (inv[p].nodes[i].textLen > ExcerptLen)

\* the calls the two Lambda handlers make
HandlerOps == UploadOps \cup {"getTopic", "retrieve", "synthesize"}

\* C12: no failure leaves uploadToLlamaCloud or queryTopic as an exception:
\* a handler that has terminated has returned success or failure, and when
\* any of its calls (store, blob store, indexing service, retrieval,
\* synthesis) or the handling of a response failed it has returned
\* success:false with an error message; a handler that is still running after
\* a failure is in its catch block.
C12_NoFailureEscapes ==
    \A p \in Procs :
        LET failed == \E op \in HandlerOps : Has(inv[p], op, FALSE)
        IN /\ inv[p].resp \in {"none", "success", "failure"}
           /\ (inv[p].pc = "done" /\ inv[p].origin \in {"direct", "query"}) =>
                 inv[p].resp # "none"
           /\ failed => inv[p].pc \in {"writeFailed", "done"}
           /\ (failed /\ inv[p].pc = "done") => inv[p].resp = "failure"
           /\ inv[p].resp = "failure" =>
                 /\ inv[p].error # << >>
                 /\ inv[p].origin = "query" =>
                       /\ ~inv[p].out.success /\ inv[p].out.error = inv[p].error
                       /\ ~inv[p].out.hasAnswer /\ ~inv[p].out.hasCitations
                       /\ ~inv[p].out.metadata.present

\* an invocation whose file upload failed and whose FAILED update failed too
\* has returned failure with the message of the upload
C12_Witness ==
    \E p \in Procs :
        /\ inv[p].pc = "done" /\ inv[p].resp = "failure"
        /\ Has(inv[p], "uploadFile", FALSE) /\ Has(inv[p], "writeFailed", FALSE)
        /\ inv[p].error = <<"Failed to upload file">>

\* how often the handler of a request has called op
Attempts(rec, op) == Cardinality({i \in 1..Len(rec.calls) : rec.calls[i].op = op})

\* C13: the handler that has caught a failure makes exactly one FAILED update
\* and returns success:false with the message of the failure it caught,
\* whether the update goes through or not; when the update fails, the Topic
\* store is left as it was.
C13_FailedWriteSwallowed ==
    [][\A p \in Procs :
          (inv[p].pc = "writeFailed" /\ inv'[p] # inv[p])
          => /\ inv'[p].pc = "done" /\ inv'[p].resp = "failure"
             /\ inv[p].error # << >> /\ inv'[p].error = inv[p].error
             /\ Attempts(inv[p], "writeFailed") = 0
             /\ Attempts(inv'[p], "writeFailed") = 1
             /\ Has(inv'[p], "writeFailed", FALSE) => topics' = topics]_vars

\* the download failed, then the FAILED update failed: the Topic is still as
\* the INDEXING update left it
C13_Witness ==
    \E p \in Procs :
        /\ inv[p].pc = "done" /\ inv[p].resp = "failure"
        /\ Has(inv[p], "download", FALSE) /\ Has(inv[p], "writeFailed", FALSE)
        /\ inv[p].error = <<"Failed to download PDF from S3">>
        /\ inv[p].topicId \in DOMAIN topics
        /\ topics[inv[p].topicId].topicStatus = "INDEXING"
        /\ topics[inv[p].topicId].updatedAt = Now(p, "indexing")

StepOrder == <<"download", "createPipeline", "uploadFile", "attachFile">>

IsStep(c) == c.op \in FourSteps

\* the external steps the upload handler of a request has attempted
StepCalls(rec) == SelectSeq(rec.calls, IsStep)

\* C14: the external steps of one invocation are attempted in the order
\* download, create pipeline, upload file, attach file, each at most once; a
\* step is attempted only when all steps before it succeeded; and after a
\* failed call the handler makes no call but its one FAILED update (no retry,
\* no compensating call).
C14_StepsInOrderNoRetry ==
    \A p \in Procs :
        LET sc == StepCalls(inv[p])
            uc == UploadCalls(inv[p])
        IN /\ Len(sc) <= 4
           /\ \A i \in 1..Len(sc) : sc[i].op = StepOrder[i]
           /\ \A i \in 1..(Len(sc) - 1) : sc[i].ok
           /\ \A i \in 1..Len(uc) :
                 ~uc[i].ok =>
                    \/ i = Len(uc)
                    \/ i = Len(uc) - 1 /\ uc[Len(uc)].op = "writeFailed"
           /\ \A i \in 1..Len(inv[p].calls) :
                 inv[p].calls[i].op \in
                    HandlerOps \cup {"putObject", "createTopic"}

\* the file upload failed after the pipeline was created: no attach, no
\* second upload, and the pipeline is still named on the Topic
C14_Witness ==
    \E p \in Procs :
        /\ inv[p].pc = "done"
        /\ UploadCalls(inv[p]) =
              <<Call("writeIndexing", TRUE), Call("download", TRUE),
                Call("createPipeline", TRUE), Call("uploadFile", FALSE),
                Call("writeFailed", TRUE)>>
        /\ inv[p].topicId \in DOMAIN topics
        /\ topics[inv[p].topicId].llamaCloudPipelineId = NewPipelineId(p)

\* C15: the INDEXING update is the first call of every uploadToLlamaCloud
\* invocation that makes any call, and it has gone through before the blob
\* download, before any call to the indexing service and before the READY
\* update.
C15_IndexingWriteFirst ==
    \A p \in Procs :
        LET uc == UploadCalls(inv[p])
            first == IF uc = << >> THEN Call("none", FALSE) ELSE uc[1]
        IN /\ uc # << >> => first.op = "writeIndexing"
           /\ (\E op \in FourSteps \cup {"writeReady"} : Tried(inv[p], op)) =>
                 first = Call("writeIndexing", TRUE)
           /\ inv[p].pc \in FourSteps \cup {"writeReady"} =>
                 first = Call("writeIndexing", TRUE)

\* an invocation has downloaded the blob and stands before the pipeline
\* creation; the Topic carries its INDEXING update
C15_Witness ==
    \E p \in Procs :
        /\ inv[p].pc = "createPipeline"
        /\ UploadCalls(inv[p]) = <<Call("writeIndexing", TRUE), Call("download", TRUE)>>
        /\ topics[inv[p].topicId].topicStatus = "INDEXING"
        /\ topics[inv[p].topicId].updatedAt = Now(p, "indexing")

\* the step in which the handler of p, having failed at the pipeline-create
\* call, makes its FAILED update and the update goes through
CreateFailureRecorded(p) ==
    /\ inv[p].pc = "writeFailed"
    /\ Has(inv[p], "createPipeline", FALSE)
    /\ Has(inv'[p], "writeFailed", TRUE)

\* C16 (as claimed): after an invocation that failed at the pipeline-create
\* call, on a first attempt or on a re-run, the Topic is FAILED and has
\* neither llamaCloudPipelineId nor llamaCloudFileId.
C16_CreateFailureLeavesNoIds ==
    [][\A p \in Procs :
          CreateFailureRecorded(p)
          => LET t == inv[p].topicId
             IN /\ t \in DOMAIN topics'
                /\ topics'[t].topicStatus = "FAILED"
                /\ topics'[t].llamaCloudPipelineId = NoId
                /\ topics'[t].llamaCloudFileId = NoId]_vars

\* C16 (amended): an invocation that failed at the pipeline-create call
\* holds no pipeline id and no file id, and its FAILED update, when it goes
\* through, sets FAILED and leaves llamaCloudPipelineId and llamaCloudFileId
\* as they were: absent on a Topic that had none, those of an earlier attempt
\* on a re-run.
C16_CreateFailureStoresNoIds ==
    [][\A p \in Procs :
          CreateFailureRecorded(p)
          => LET t == inv[p].topicId
                 before == Item(topics, t)
             IN /\ inv[p].pipelineId = NoId /\ inv[p].fileId = NoId
                /\ t \in DOMAIN topics'
                /\ topics'[t].topicStatus = "FAILED"
                /\ topics'[t].llamaCloudPipelineId = before.llamaCloudPipelineId
                /\ topics'[t].llamaCloudFileId = before.llamaCloudFileId]_vars

\* a re-run that failed at the pipeline-create call was the last to write the
\* Topic, which still names the pipeline of an earlier attempt
C16_Witness ==
    \E p \in Procs, q \in Procs :
        /\ p # q /\ inv[p].topicId = inv[q].topicId
        /\ inv[p].pc = "done"
        /\ Has(inv[p], "createPipeline", FALSE) /\ Has(inv[p], "writeFailed", TRUE)
        /\ topics[inv[p].topicId].topicStatus = "FAILED"
        /\ topics[inv[p].topicId].updatedAt = Now(p, "failed")
        /\ Has(inv[q], "createPipeline", TRUE) /\ Has(inv[q], "writeFailed", TRUE)
        /\ topics[inv[p].topicId].llamaCloudPipelineId = NewPipelineId(q)

\* C17: FAILED is not permanent.  An invocation on a Topic that is FAILED
\* makes the INDEXING update as its first call, the Topic is INDEXING again
\* and the handler goes on to the download; and the READY update of an
\* invocation whose steps all succeeded makes the Topic READY whatever
\* happened to the Topic before.
C17_FailedReentersIndexing ==
    [][\A p \in Procs :
          LET t == inv[p].topicId
          IN /\ (/\ inv[p].pc = "writeIndexing"
                 /\ t \in DOMAIN topics
                 /\ topics[t].topicStatus = "FAILED"
                 /\ Has(inv'[p], "writeIndexing", TRUE))
                => /\ UploadCalls(inv[p]) = << >>
                   /\ topics'[t].topicStatus = "INDEXING"
                   /\ topics'[t].updatedAt = Now(p, "indexing")
                   /\ inv'[p].pc = "download"
             /\ (inv[p].pc = "writeReady" /\ Has(inv'[p], "writeReady", TRUE))
                => /\ UploadCalls(inv'[p]) = FullRun
                   /\ topics'[t].topicStatus = "READY"]_vars

\* a Topic that the FAILED update of one invocation had marked FAILED is
\* READY through the READY update of another invocation
C17_Witness ==
    \E p \in Procs, q \in Procs :
        /\ p # q /\ inv[p].topicId = inv[q].topicId
        /\ inv[p].pc = "done" /\ inv[p].resp = "failure"
        /\ Has(inv[p], "writeFailed", TRUE)
        /\ inv[q].resp = "success" /\ UploadCalls(inv[q]) = FullRun
        /\ topics[inv[q].topicId].topicStatus = "READY"
        /\ topics[inv[q].topicId].updatedAt = Now(q, "ready")
        /\ topics[inv[q].topicId].llamaCloudPipelineId = NewPipelineId(q)

\* C18: saveTopicDocument answers success:true whenever it has created the
\* Topic record, whatever becomes of the uploadToLlamaCloud mutation.
C18_SaveSucceedsOnceCreated ==
    \A p \in Procs :
        (inv[p].origin = "save" /\ inv[p].pc = "done" /\ Has(inv[p], "createTopic", TRUE))
        => inv[p].saveResp = "success"

\* C21: in every queryTopic response, success:true comes with citations and
\* metadata such that metadata.nodesRetrieved = citations.length (0 = 0 on
\* the zero-passage path), and success:false comes without citations and
\* without metadata.
C21_NodesRetrievedIsCitationCount ==
    \A p \in Procs :
        QueryDone(p) =>
            /\ inv[p].out.success =>
                  /\ inv[p].out.hasCitations /\ inv[p].out.metadata.present
                  /\ inv[p].out.metadata.nodesRetrieved = Len(inv[p].out.citations)
            /\ ~inv[p].out.success =>
                  /\ ~inv[p].out.hasCitations /\ inv[p].out.citations = << >>
                  /\ ~inv[p].out.metadata.present

\* a synthesized answer over one passage that has neither text nor page label
C21_Witness ==
    \E p \in Procs :
        /\ QueryDone(p) /\ inv[p].out.success
        /\ Len(inv[p].nodes) = 1 /\ inv[p].nodes[1].textLen = 0
        /\ inv[p].out.metadata.nodesRetrieved = 1
        /\ Len(inv[p].out.citations) = 1
        /\ inv[p].out.citations[1].page = "Unknown"

\* C30: every queryTopic response with success:true carries metadata with
\* topicTitle, queryDate and nodesRetrieved, on the zero-passage path as on
\* the synthesized path.
C30_MetadataComplete ==
    \A p \in Procs :
        (QueryDone(p) /\ inv[p].out.success)
        => /\ inv[p].out.metadata.present
           /\ inv[p].out.metadata.topicTitle # NoTitle
           /\ inv[p].out.metadata.hasQueryDate
           /\ inv[p].out.metadata.nodesRetrieved = Len(inv[p].nodes)

\* the store writes of the upload handler
WriteOps == {"writeIndexing", "writeReady", "writeFailed"}

\* the requests whose upload handler has written the record of Topic t
Writers(t) ==
    {p \in Procs : inv[p].topicId = t /\ \E op \in WriteOps : Has(inv[p], op, TRUE)}

\* C22: a Topic that is PENDING has neither llamaCloudPipelineId nor
\* llamaCloudFileId: it is the record saveTopicDocument created, and no
\* handler has written it since (no operation writes PENDING).
C22_PendingHasNoIds ==
    \A t \in DOMAIN topics :
        topics[t].topicStatus = "PENDING" =>
            /\ topics[t].llamaCloudPipelineId = NoId
            /\ topics[t].llamaCloudFileId = NoId
            /\ \E p \in Procs :
                  /\ inv[p].origin = "save" /\ inv[p].topicId = t
                  /\ topics[t] = NewTopic(Now(p, "create"))
            /\ Writers(t) = {}

\* a Topic was created and the mutation came back without reaching the
\* handler: the Topic is PENDING
C22_Witness ==
    \E p \in Procs :
        /\ inv[p].origin = "save" /\ inv[p].pc = "done"
        /\ Has(inv[p], "createTopic", TRUE) /\ inv[p].resp = "none"
        /\ topics[inv[p].topicId].topicStatus = "PENDING"
        /\ topics[inv[p].topicId].llamaCloudPipelineId = NoId

\* the requests whose READY update of Topic t went through
ReadyWriters(t) ==
    {p \in Procs : inv[p].topicId = t /\ Has(inv[p], "writeReady", TRUE)}

\* indexedAt and the file id of every Topic are those of a READY update
StampedByReady ==
    \A t \in DOMAIN topics :
        /\ ReadyWriters(t) = {} =>
              /\ topics[t].indexedAt = NoTime
              /\ topics[t].llamaCloudFileId = NoId
        /\ ReadyWriters(t) # {} =>
              \E p \in ReadyWriters(t) :
                  /\ topics[t].indexedAt = Now(p, "indexedAt")
                  /\ topics[t].llamaCloudFileId = NewFileId(p)

\* C23: indexedAt and llamaCloudFileId are written by the READY update only.
\* A step that changes either of them on a Topic is the READY update of an
\* invocation for that Topic and leaves the Topic READY; the INDEXING update
\* and the FAILED update leave both as they were.  So a Topic that no READY
\* update has reached has neither, and a Topic that was READY keeps the
\* indexedAt and the file id of a READY update through later INDEXING and
\* FAILED updates.
C23_IndexedAtOnlyByReady ==
    /\ []StampedByReady
    /\ [][\A t \in DOMAIN topics' :
             LET old == Item(topics, t)
                 new == topics'[t]
             IN (\/ new.indexedAt # old.indexedAt
                 \/ new.llamaCloudFileId # old.llamaCloudFileId) =>
                   /\ new.topicStatus = "READY"
                   /\ \E p \in Procs :
                         /\ inv[p].pc = "writeReady" /\ inv[p].topicId = t
                         /\ Has(inv'[p], "writeReady", TRUE)
                         /\ new.indexedAt = Now(p, "indexedAt")
                         /\ new.llamaCloudFileId = NewFileId(p)]_vars

\* a Topic was READY, then another invocation wrote INDEXING and FAILED:
\* indexedAt and the file id are still those of the READY update
C23_Witness ==
    \E p \in Procs, q \in Procs :
        /\ p # q /\ inv[p].topicId = inv[q].topicId
        /\ Has(inv[p], "writeReady", TRUE)
        /\ Has(inv[q], "writeIndexing", TRUE) /\ Has(inv[q], "writeFailed", TRUE)
        /\ ~Tried(inv[q], "writeReady")
        /\ topics[inv[p].topicId].topicStatus = "FAILED"
        /\ topics[inv[p].topicId].updatedAt = Now(q, "failed")
        /\ topics[inv[p].topicId].indexedAt = Now(p, "indexedAt")
        /\ topics[inv[p].topicId].llamaCloudFileId = NewFileId(p)

\* the requests whose saveTopicDocument created a Topic record
Creators == {p \in Procs : inv[p].origin = "save" /\ Has(inv[p], "createTopic", TRUE)}

\* C24: every Topic record in the store was created by saveTopicDocument
\* (it carries the title the upload flow gave it and a saveTopicDocument
\* request created it); uploadToLlamaCloud never creates a record, also when
\* it is invoked with a topicId that has no record.
C24_OnlyUploadFlowCreates ==
    \A t \in DOMAIN topics :
        /\ topics[t].title = TopicTitle
        /\ \E p \in Creators : inv[p].topicId = t

\* the pipeline id and the file id of Topic t come from one invocation, which
\* attached that file to that pipeline
SamePair(t) ==
    \E p \in Procs :
        /\ inv[p].topicId = t /\ Has(inv[p], "attachFile", TRUE)
        /\ topics[t].llamaCloudPipelineId = NewPipelineId(p)
        /\ topics[t].llamaCloudFileId = NewFileId(p)

\* C25: under any interleaving of uploadToLlamaCloud invocations for one
\* Topic, a READY Topic has the pipeline id and the file id of one and the
\* same invocation, which attached that file to that pipeline; a Topic that
\* holds the pipeline id of one attempt and the file id of another is
\* INDEXING or FAILED.
C25_ReadyPairFromOneInvocation ==
    \A t \in DOMAIN topics :
        /\ topics[t].topicStatus = "READY" => SamePair(t)
        /\ (/\ topics[t].llamaCloudPipelineId # NoId
            /\ topics[t].llamaCloudFileId # NoId
            /\ ~SamePair(t)) => topics[t].topicStatus \in {"INDEXING", "FAILED"}

\* one invocation failed after creating its pipeline and wrote FAILED, then
\* a concurrent invocation for the same Topic wrote READY: the Topic has the
\* pair of the second and nothing of the first
C25_Witness ==
    \E p \in Procs, q \in Procs :
        /\ p # q /\ inv[p].topicId = inv[q].topicId
        /\ inv[p].pipelineId = NewPipelineId(p) /\ Has(inv[p], "writeFailed", TRUE)
        /\ inv[q].resp = "success"
        /\ topics[inv[q].topicId].topicStatus = "READY"
        /\ topics[inv[q].topicId].llamaCloudPipelineId = NewPipelineId(q)
        /\ topics[inv[q].topicId].llamaCloudFileId = NewFileId(q)

\* what the log and the response of an invocation say about its READY update
ReadyUpdateAnswered ==
    \A p \in Procs :
        /\ (inv[p].origin \in {"save", "direct"} /\ inv[p].resp = "success") =>
              /\ Has(inv[p], "writeReady", TRUE)
              /\ inv[p].pipelineId = NewPipelineId(p)
              /\ inv[p].fileId = NewFileId(p)
        /\ (/\ Has(inv[p], "writeReady", TRUE)
            /\ inv[p].topicId \in DOMAIN topics
            /\ topics[inv[p].topicId].updatedAt = Now(p, "ready")) =>
              /\ inv[p].resp = "success"
              /\ topics[inv[p].topicId].topicStatus = "READY"
              /\ topics[inv[p].topicId].llamaCloudPipelineId = inv[p].pipelineId
              /\ topics[inv[p].topicId].llamaCloudFileId = inv[p].fileId
        /\ Has(inv[p], "writeReady", FALSE) =>
              /\ \A op \in FourSteps : Has(inv[p], op, TRUE)
              /\ inv[p].pc \in {"writeFailed", "done"}
              /\ inv[p].pc = "done" =>
                    inv[p].resp = "failure" /\ Tried(inv[p], "writeFailed")
              /\ inv[p].pipelineId = NewPipelineId(p)
              /\ (/\ Has(inv[p], "writeFailed", TRUE)
                  /\ topics[inv[p].topicId].updatedAt = Now(p, "failed")) =>
                    /\ topics[inv[p].topicId].topicStatus = "FAILED"
                    /\ topics[inv[p].topicId].llamaCloudPipelineId = NewPipelineId(p)
                    /\ topics[inv[p].topicId].llamaCloudFileId # NewFileId(p)

\* C26: uploadToLlamaCloud answers success only when its own READY update
\* went through, and the ids of the response are the ones that update
\* stored.  When the four indexing steps succeeded and the READY update
\* failed, the store is untouched by it, the handler goes to its FAILED
\* update and answers failure; that update stores the pipeline id this
\* invocation created and leaves the file id of the Topic as it was.
C26_SuccessMeansReadyWritten ==
    /\ []ReadyUpdateAnswered
    /\ [][\A p \in Procs :
             LET t == inv[p].topicId
             IN /\ (inv[p].pc = "writeReady" /\ inv'[p].pc # "writeReady") =>
                     IF inv'[p].resp = "success"
                     THEN /\ Has(inv'[p], "writeReady", TRUE)
                          /\ topics'[t].topicStatus = "READY"
                          /\ topics'[t].llamaCloudPipelineId = inv'[p].pipelineId
                          /\ topics'[t].llamaCloudFileId = inv'[p].fileId
                     ELSE /\ Has(inv'[p], "writeReady", FALSE)
                          /\ inv'[p].pc = "writeFailed"
                          /\ topics' = topics
                /\ (/\ inv[p].pc = "writeFailed" /\ Has(inv[p], "writeReady", FALSE)
                    /\ inv'[p].pc # "writeFailed") =>
                     /\ inv'[p].pc = "done" /\ inv'[p].resp = "failure"
                     /\ Has(inv'[p], "writeFailed", TRUE) =>
                           /\ topics'[t].topicStatus = "FAILED"
                           /\ topics'[t].llamaCloudPipelineId = NewPipelineId(p)
                           /\ topics'[t].llamaCloudFileId =
                                 Item(topics, t).llamaCloudFileId
                     /\ Has(inv'[p], "writeFailed", FALSE) => topics' = topics]_vars

\* the four steps of an invocation succeeded, its READY update failed and
\* its FAILED update went through
C26_Witness ==
    \E p \in Procs :
        /\ Has(inv[p], "attachFile", TRUE) /\ Has(inv[p], "writeReady", FALSE)
        /\ Has(inv[p], "writeFailed", TRUE)
        /\ inv[p].pc = "done" /\ inv[p].resp = "failure"
        /\ topics[inv[p].topicId].topicStatus = "FAILED"
        /\ topics[inv[p].topicId].llamaCloudPipelineId = NewPipelineId(p)
        /\ topics[inv[p].topicId].llamaCloudFileId = NoId

\* the order of the calls in the log of every saveTopicDocument request
SaveLogInOrder ==
    /\ \A p \in Procs :
          inv[p].origin = "save" =>
             LET calls == inv[p].calls
             IN /\ Tried(inv[p], "createTopic") =>
                      /\ Len(calls) >= 2
                      /\ calls[1] = Call("putObject", TRUE)
                      /\ calls[2].op = "createTopic"
                /\ Tried(inv[p], "putObject") => calls[1].op = "putObject"
                /\ UploadCalls(inv[p]) # << >> =>
                      /\ Has(inv[p], "createTopic", TRUE)
                      /\ \A i \in 1..Len(calls) : calls[i].op \in UploadOps => i > 2
                /\ inv[p].resp # "none" => Has(inv[p], "createTopic", TRUE)
                /\ ~Has(inv[p], "createTopic", TRUE) =>
                      /\ inv[p].pc = "done" /\ inv[p].saveResp = "failure"
                      /\ inv[p].topicId = NoId
                      /\ calls \in {<< >>, <<Call("putObject", FALSE)>>,
                                    <<Call("putObject", TRUE), Call("createTopic", FALSE)>>}
                /\ Has(inv[p], "createTopic", TRUE) => inv[p].topicId \in DOMAIN topics
    /\ \A p \in Creators, q \in Creators : inv[p].topicId = inv[q].topicId => p = q
    /\ \A t \in DOMAIN topics :
          topics[t].title = TopicTitle => \E p \in Creators : inv[p].topicId = t

QueryRuns(p) == inv[p].pc = "idle" /\ inv'[p].origin = "query"

\* C28: queryTopic writes nothing to the Topic store: whatever the outcome of
\* the query (not found, not ready, no pipeline id, retrieval failure, empty
\* retrieval, synthesis failure, success), the store after the query is the
\* store before it.
C28_QueryLeavesStore ==
    [][\A p \in Procs : QueryRuns(p) => topics' = topics]_vars

\* a query of a READY Topic was answered with citations, and the record is
\* still one of the schema
C28_Witness ==
    \E p \in Procs :
        /\ QueryDone(p) /\ inv[p].out.success /\ inv[p].out.citations # << >>
        /\ inv[p].topicId \in DOMAIN topics
        /\ topics[inv[p].topicId] \in SchemaTopics
        /\ topics[inv[p].topicId].topicStatus = "READY"

EnvError == <<"Missing required environment variables">>

\* C29: a handler that finds a required environment variable missing returns
\* success:false with 'Missing required environment variables' at once: it
\* has made no store access and no external call, and the store is as it was
\* (for a saveTopicDocument request: as the action's Topic.create left it,
\* the new Topic PENDING).
C29_EnvFailureTouchesNothing ==
    [][\A p \in Procs :
          (inv[p].pc = "idle" /\ inv'[p].error = EnvError) =>
             /\ inv'[p].pc = "done" /\ inv'[p].resp = "failure"
             /\ \A i \in 1..Len(inv'[p].calls) : inv'[p].calls[i].op \notin HandlerOps
             /\ inv'[p].origin = "query" =>
                   ~inv'[p].out.success /\ inv'[p].out.error = EnvError
             /\ inv'[p].origin \in {"direct", "query"} => topics' = topics
             /\ inv'[p].origin = "save" =>
                   /\ inv'[p].topicId \notin DOMAIN topics
                   /\ topics' = topics @@ (inv'[p].topicId :> NewTopic(Now(p, "create")))]_vars

\* uploadToLlamaCloud was invoked for a PENDING Topic without its environment:
\* it answered failure and the Topic is PENDING
C29_Witness ==
    \E p \in Procs :
        /\ inv[p].origin = "direct" /\ inv[p].pc = "done"
        /\ inv[p].error = EnvError /\ inv[p].resp = "failure"
        /\ inv[p].calls = << >>
        /\ inv[p].topicId \in DOMAIN topics
        /\ topics[inv[p].topicId].topicStatus = "PENDING"

====
